---- MODULE Spec2Model ----
(***************************************************************************)
(* A model of automation_Python_Script.py: the FileOrganizer class         *)
(* (create_directories, get_category, organize_files, generate_report) and *)
(* main(), running against a filesystem.  File and directory names are     *)
(* sequences of one-character strings, paths are sequences of names, and   *)
(* the filesystem maps absolute paths to nodes.                            *)
(***************************************************************************)
EXTENDS Integers, Sequences, FiniteSets, TLC

\* Bounds of the model.
MaxClock == 1

MaxRuns == 2

MaxOtherLen == 2

MaxFiles == 2

MaxCalls == 2

----------------------------------------------------------------------------
\* Names (each a sequence of characters).

Root == <<"/">>

N_organized_files == <<"o", "r", "g", "a", "n", "i", "z", "e", "d", "_", "f", "i", "l", "e", "s">>

N_documents == <<"d", "o", "c", "u", "m", "e", "n", "t", "s">>

N_images == <<"i", "m", "a", "g", "e", "s">>

N_audio == <<"a", "u", "d", "i", "o">>

N_videos == <<"v", "i", "d", "e", "o", "s">>

N_archives == <<"a", "r", "c", "h", "i", "v", "e", "s">>

N_code == <<"c", "o", "d", "e">>

N_misc == <<"m", "i", "s", "c">>

N_report == <<"o", "r", "g", "a", "n", "i", "z", "a", "t", "i", "o", "n", "_", "r", "e", "p", "o", "r", "t", ".", "t", "x", "t">>

N_log == <<"f", "i", "l", "e", "_", "o", "r", "g", "a", "n", "i", "z", "e", "r", ".", "l", "o", "g">>

N_a_txt == <<"a", ".", "t", "x", "t">>

N_dot_py == <<".", "p", "y">>

N_sub == <<"s", "u", "b">>

N_x_txt == <<"x", ".", "t", "x", "t">>

N_old == <<"o", "l", "d">>

N_srv == <<"s", "r", "v">>

N_work == <<"w", "o", "r", "k">>

N_nowhere == <<"n", "o", "w", "h", "e", "r", "e">>

TimestampPrefix == <<"2", "0", "2", "6", "1", "0", "2", "9", "_", "1", "2", "0", "0", "0">>

----------------------------------------------------------------------------
\* The extension table of FileOrganizer.__init__, in dict order.

categories ==
  <<
    [name |-> N_documents,
     extensions |-> <<<<".", "p", "d", "f">>,
                      <<".", "d", "o", "c">>,
                      <<".", "d", "o", "c", "x">>,
                      <<".", "t", "x", "t">>,
                      <<".", "r", "t", "f">>,
                      <<".", "o", "d", "t">> >>],
    [name |-> N_images,
     extensions |-> <<<<".", "j", "p", "g">>,
                      <<".", "j", "p", "e", "g">>,
                      <<".", "p", "n", "g">>,
                      <<".", "g", "i", "f">>,
                      <<".", "b", "m", "p">>,
                      <<".", "s", "v", "g">> >>],
    [name |-> N_audio,
     extensions |-> <<<<".", "m", "p", "3">>,
                      <<".", "w", "a", "v">>,
                      <<".", "f", "l", "a", "c">>,
                      <<".", "m", "4", "a">> >>],
    [name |-> N_videos,
     extensions |-> <<<<".", "m", "p", "4">>,
                      <<".", "a", "v", "i">>,
                      <<".", "m", "k", "v">>,
                      <<".", "m", "o", "v">> >>],
    [name |-> N_archives,
     extensions |-> <<<<".", "z", "i", "p">>,
                      <<".", "r", "a", "r">>,
                      <<".", "7", "z">>,
                      <<".", "t", "a", "r">>,
                      <<".", "g", "z">> >>],
    [name |-> N_code,
     extensions |-> <<<<".", "p", "y">>,
                      <<".", "j", "s">>,
                      <<".", "h", "t", "m", "l">>,
                      <<".", "c", "s", "s">>,
                      <<".", "j", "a", "v", "a">>,
                      <<".", "c", "p", "p">> >>]
  >>

\* The table of the documentation (section 6), as an unordered relation.
DocumentedTable ==
  {[category |-> N_documents,
    extensions |-> {<<".", "p", "d", "f">>,
                   <<".", "d", "o", "c">>,
                   <<".", "d", "o", "c", "x">>,
                   <<".", "t", "x", "t">>,
                   <<".", "r", "t", "f">>,
                   <<".", "o", "d", "t">>}],
   [category |-> N_images,
    extensions |-> {<<".", "j", "p", "g">>,
                   <<".", "j", "p", "e", "g">>,
                   <<".", "p", "n", "g">>,
                   <<".", "g", "i", "f">>,
                   <<".", "b", "m", "p">>,
                   <<".", "s", "v", "g">>}],
   [category |-> N_audio,
    extensions |-> {<<".", "m", "p", "3">>,
                   <<".", "w", "a", "v">>,
                   <<".", "f", "l", "a", "c">>,
                   <<".", "m", "4", "a">>}],
   [category |-> N_videos,
    extensions |-> {<<".", "m", "p", "4">>,
                   <<".", "a", "v", "i">>,
                   <<".", "m", "k", "v">>,
                   <<".", "m", "o", "v">>}],
   [category |-> N_archives,
    extensions |-> {<<".", "z", "i", "p">>,
                   <<".", "r", "a", "r">>,
                   <<".", "7", "z">>,
                   <<".", "t", "a", "r">>,
                   <<".", "g", "z">>}],
   [category |-> N_code,
    extensions |-> {<<".", "p", "y">>,
                   <<".", "j", "s">>,
                   <<".", "h", "t", "m", "l">>,
                   <<".", "c", "s", "s">>,
                   <<".", "j", "a", "v", "a">>,
                   <<".", "c", "p", "p">>}]}

UpperToLower ==
  ("A" :> "a") @@
  ("B" :> "b") @@
  ("C" :> "c") @@
  ("D" :> "d") @@
  ("E" :> "e") @@
  ("F" :> "f") @@
  ("G" :> "g") @@
  ("H" :> "h") @@
  ("I" :> "i") @@
  ("J" :> "j") @@
  ("K" :> "k") @@
  ("L" :> "l") @@
  ("M" :> "m") @@
  ("N" :> "n") @@
  ("O" :> "o") @@
  ("P" :> "p") @@
  ("Q" :> "q") @@
  ("R" :> "r") @@
  ("S" :> "s") @@
  ("T" :> "t") @@
  ("U" :> "u") @@
  ("V" :> "v") @@
  ("W" :> "w") @@
  ("X" :> "x") @@
  ("Y" :> "y") @@
  ("Z" :> "z")

Digit == <<"0", "1", "2", "3", "4", "5", "6", "7", "8", "9">>

----------------------------------------------------------------------------
\* String and path helpers (str and pathlib.PurePath).

\* Characters outside ASCII are written by their code point.  These are the
\* only two characters outside ASCII whose lower-case form holds an ASCII
\* character, and a lower-case letter whose upper-case form is ASCII.
KelvinSign == "U+212A"

CapitalIDot == "U+0130"

CombiningDot == "U+0307"

LongS == "U+017F"

\* str.lower() of a one-character string: a string, since the lower-case form
\* of U+0130 has two characters.
LowerChar(c) ==
  IF c \in DOMAIN UpperToLower THEN <<UpperToLower[c]>>
  ELSE IF c = KelvinSign THEN <<"k">>
  ELSE IF c = CapitalIDot THEN <<"i", CombiningDot>>
  ELSE <<c>>

\* str.lower()
RECURSIVE lower(_)
lower(s) == IF s = <<>> THEN <<>> ELSE LowerChar(Head(s)) \o lower(Tail(s))

\* str.upper() of a character.
UpperChar(c) ==
  IF \E u \in DOMAIN UpperToLower : UpperToLower[u] = c
    THEN CHOOSE u \in DOMAIN UpperToLower : UpperToLower[u] = c
    ELSE IF c = LongS THEN "S" ELSE c

\* str.capitalize(): first character upper-cased, the rest lower-cased.
capitalize(s) ==
  IF s = <<>> THEN <<>> ELSE <<UpperChar(Head(s))>> \o lower(Tail(s))

\* str.rfind('.'), 1-based; 0 when there is no dot.
RFindDot(name) ==
  IF \E i \in 1..Len(name) : name[i] = "."
    THEN CHOOSE i \in 1..Len(name) :
           /\ name[i] = "."
           /\ \A j \in (i + 1)..Len(name) : name[j] # "."
    ELSE 0

\* PurePath.suffix: the last dot counts only when it is neither the first
\* nor the last character of the name.
suffix(name) ==
  LET i == RFindDot(name)
  IN IF 1 < i /\ i < Len(name) THEN SubSeq(name, i, Len(name)) ELSE <<>>

\* PurePath.stem
stem(name) ==
  LET i == RFindDot(name)
  IN IF 1 < i /\ i < Len(name) THEN SubSeq(name, 1, i - 1) ELSE name

\* datetime.now().strftime("%Y%m%d_%H%M%S") for the clock value t (seconds).
strftime(t) == TimestampPrefix \o <<Digit[t + 1]>>

\* PurePath.__truediv__ with a single name.
Join(p, name) == Append(p, name)

\* PurePath.name
NameOf(p) == p[Len(p)]

IsPrefix(p, q) == Len(p) <= Len(q) /\ SubSeq(q, 1, Len(p)) = p

IsAbsolute(p) == Len(p) > 0 /\ p[1] = Root

\* How the operating system resolves a path against the working directory.
Resolve(wd, p) == IF IsAbsolute(p) THEN p ELSE wd \o p

\* Path('file_organizer.log')
LogPath == <<N_log>>

----------------------------------------------------------------------------
\* Filesystem: a function from absolute paths to nodes.

Dir == [kind |-> "dir", text |-> "", lines |-> <<>>]

File(text) == [kind |-> "file", text |-> text, lines |-> <<>>]

Entry(p, node) == [path |-> p, node |-> node]

FsOf(entries) ==
  [p \in {e.path : e \in entries} |->
     (CHOOSE e \in entries : e.path = p).node]

WriteNode(f, p, node) ==
  [q \in DOMAIN f \cup {p} |-> IF q = p THEN node ELSE f[q]]

Children(f, d) ==
  {q \in DOMAIN f : Len(q) = Len(d) + 1 /\ IsPrefix(d, q)}

\* PurePath.parent
Parent(p) == SubSeq(p, 1, Len(p) - 1)

IsDir(f, p) == p \in DOMAIN f /\ f[p].kind = "dir"

\* A record of the log: the message with its arguments.  The asctime prefix
\* of the format and the text of an exception, in the error messages, are
\* left out.
LogLine(msg, name, folder, a, b) ==
  [msg |-> msg, name |-> name, folder |-> folder, a |-> a, b |-> b]

\* logging.info / logging.error: the handler appends to the file it opened,
\* wherever that file is now; at is <<>> when the file has been replaced.
logging_write(f, at, records) ==
  IF at \in DOMAIN f
    THEN [f EXCEPT ![at].lines = f[at].lines \o records]
    ELSE f

\* Where the file that was at path p is after src has been renamed to dst.
Follow(p, src, dst) ==
  IF p # <<>> /\ IsPrefix(src, p) THEN dst \o SubSeq(p, Len(src) + 1, Len(p))
  ELSE IF p # <<>> /\ IsPrefix(dst, p) THEN <<>>
  ELSE p

\* Where the file that was at path p is after src has been copied to dst and
\* unlinked: a handle open on src stays on the unlinked file, which has no
\* path any more; a file at dst is written over in place and stays itself.
FollowCopy(p, src) == IF p = src THEN <<>> ELSE p

\* os.rename(src, dst): the node at src, with everything below it, moves to
\* dst; a file already at dst is replaced.  ok is FALSE when it raises: src
\* is missing, the parent of dst is not a directory, dst is inside src, a
\* file would replace a directory, or a directory would replace a file or a
\* directory that is not empty.
os_rename(f, src, dst) ==
  LET moving == {q \in DOMAIN f : IsPrefix(src, q)}
      staying == {q \in DOMAIN f : ~IsPrefix(src, q) /\ ~IsPrefix(dst, q)}
      rebase(q) == dst \o SubSeq(q, Len(src) + 1, Len(q))
      raises ==
        \/ src \notin DOMAIN f
        \/ ~IsDir(f, Parent(dst))
        \/ IsPrefix(src, dst) /\ src # dst
        \/ /\ dst \in DOMAIN f
           /\ src \in DOMAIN f
           /\ \/ f[src].kind = "file" /\ f[dst].kind = "dir"
              \/ f[src].kind = "dir" /\ f[dst].kind = "file"
              \/ f[src].kind = "dir" /\ Children(f, dst) # {}
  IN IF raises
       THEN [ok |-> FALSE, fs |-> f]
       ELSE [ok |-> TRUE,
             fs |-> [q \in staying \cup {rebase(m) : m \in moving} |->
                       IF q \in staying
                         THEN f[q]
                         ELSE f[CHOOSE m \in moving : rebase(m) = q]]]

\* shutil.move(src, dst) on absolute paths: ok is FALSE when it raises, copied
\* says whether the content went by copy.  A destination that is a directory
\* means "into it", and raises when the name is taken there.  refusal says
\* what the operating system refuses:
\*   none     nothing: os.rename decides;
\*   refused  os.rename and the copy shutil.move falls back to (or, before
\*            them, the exists() of line 84): nothing has changed when it
\*            raises;
\*   copied   os.rename and the final os.unlink, but not the copy: when it
\*            raises, the content of src is at the destination as well,
\*            written over a file that was there, and src is still in place;
\*   by_copy  os.rename only (another filesystem): the content of src is
\*            copied to the destination, over a file that was there, src is
\*            unlinked and the move has succeeded.
\* When os.rename raises by itself, the copy raises for the same reason.
shutil_move(f, src, dst, refusal) ==
  LET into == IsDir(f, dst)
      real_dst == IF into THEN Join(dst, NameOf(src)) ELSE dst
      renamed == os_rename(f, src, real_dst)
      can_copy == /\ src \in DOMAIN f
                  /\ f[src].kind = "file"
                  /\ IsDir(f, Parent(real_dst))
                  /\ ~IsDir(f, real_dst)
      copy == WriteNode(f, real_dst, f[src])
      unlinked == [q \in DOMAIN copy \ {src} |-> copy[q]]
  IN IF into /\ real_dst \in DOMAIN f
       THEN [ok |-> FALSE, fs |-> f, dest |-> real_dst, copied |-> FALSE]
     ELSE IF refusal = "copied" /\ can_copy
       THEN [ok |-> FALSE, fs |-> copy, dest |-> real_dst, copied |-> TRUE]
     ELSE IF refusal = "by_copy" /\ can_copy
       THEN [ok |-> TRUE, fs |-> unlinked, dest |-> real_dst, copied |-> TRUE]
     ELSE IF refusal # "none" \/ ~renamed.ok
       THEN [ok |-> FALSE, fs |-> f, dest |-> real_dst, copied |-> FALSE]
       ELSE [ok |-> TRUE, fs |-> renamed.fs, dest |-> real_dst, copied |-> FALSE]

----------------------------------------------------------------------------
\* FileOrganizer

\* self.organized_dir
organized_dir(src) == Join(src, N_organized_files)

\* The names of the seven sub-folders, in the order create_directories and
\* generate_report visit them.
LayoutNames == [i \in 1..Len(categories) |-> categories[i].name] \o <<N_misc>>

InList(x, list) == \E i \in 1..Len(list) : list[i] = x

get_category_case_sensitive(file_extension) ==
  IF \E i \in 1..Len(categories) : InList(file_extension, categories[i].extensions)
    THEN categories[CHOOSE i \in 1..Len(categories) :
                      /\ InList(file_extension, categories[i].extensions)
                      /\ \A j \in 1..(i - 1) :
                           ~InList(file_extension, categories[j].extensions)].name
    ELSE N_misc

\* get_category: the first category, in dict order, whose list holds the
\* lower-cased extension; 'misc' when none does.
get_category(file_extension) ==
  IF \E i \in 1..Len(categories) :
       InList(lower(file_extension), categories[i].extensions)
    THEN categories[CHOOSE i \in 1..Len(categories) :
                      /\ InList(lower(file_extension), categories[i].extensions)
                      /\ \A j \in 1..(i - 1) :
                           ~InList(lower(file_extension), categories[j].extensions)].name
    ELSE N_misc

\* The paths create_directories visits, in its order: organized_files (line
\* 36), the categories in dict order (39-42), misc (45-47).
LayoutPaths(org) ==
  <<org>> \o [i \in 1..Len(LayoutNames) |-> Join(org, LayoutNames[i])]

needs_mkdir_always(f, p) == TRUE

\* `not p.exists()` of lines 36, 41 and 46.
needs_mkdir(f, p) == p \notin DOMAIN f

\* Path.mkdir(): ok is FALSE when it raises: the path exists
\* (FileExistsError), its parent is missing or not a directory, or the
\* operating system refuses.
mkdir(f, p, refused) ==
  IF refused \/ p \in DOMAIN f \/ ~IsDir(f, Parent(p))
    THEN [ok |-> FALSE, fs |-> f]
    ELSE [ok |-> TRUE, fs |-> WriteNode(f, p, Dir)]

\* Lines 36-47 from the path Head(paths) on, k calls of exists() and mkdir()
\* having been made; the operating system refuses the call number refuse_at
\* (none when 0): an exists() that is refused raises (PermissionError, a
\* directory on the way that is not searchable), as a mkdir does.  refused
\* says whether that call was reached.
RECURSIVE make_layout(_, _, _, _)
make_layout(f, paths, k, refuse_at) ==
  IF paths = <<>>
    THEN [ok |-> TRUE, fs |-> f, refused |-> FALSE]
  ELSE IF k + 1 = refuse_at
    THEN [ok |-> FALSE, fs |-> f, refused |-> TRUE]
  ELSE IF ~needs_mkdir(f, Head(paths))
    THEN make_layout(f, Tail(paths), k + 1, refuse_at)
  ELSE LET made == mkdir(f, Head(paths), k + 2 = refuse_at)
       IN IF made.ok
            THEN make_layout(made.fs, Tail(paths), k + 2, refuse_at)
            ELSE [ok |-> FALSE, fs |-> made.fs, refused |-> k + 2 = refuse_at]

\* create_directories: mkdir for each path of the layout that does not
\* exist, then the log record of line 49.  ok is FALSE when an exists() or a
\* mkdir raised; the directories made before it stay.
create_directories(f, org, at, refuse_at) ==
  LET made == make_layout(f, LayoutPaths(org), 0, refuse_at)
  IN [ok |-> made.ok,
      refused |-> made.refused,
      fs |-> IF made.ok
               THEN logging_write(made.fs, at,
                      <<LogLine("Directory structure created successfully",
                                <<>>, <<>>, 0, 0)>>)
               ELSE made.fs]

\* The test of line 72: file_path.is_file() and file_path != Path(...log).
qualifies(f, wd, file_path) ==
  /\ Resolve(wd, file_path) \in DOMAIN f
  /\ f[Resolve(wd, file_path)].kind = "file"
  /\ file_path # LogPath

\* Lines 76-88: the destination path of a qualifying file at clock value t.
dest_path(f, wd, src, file_path, t) ==
  LET category == get_category(suffix(NameOf(file_path)))
      dest_dir == Join(organized_dir(src), category)
      first == Join(dest_dir, NameOf(file_path))
  IN IF Resolve(wd, first) \in DOMAIN f
       THEN Join(dest_dir,
                 stem(NameOf(first)) \o <<"_">> \o strftime(t) \o suffix(NameOf(first)))
       ELSE first

\* The except clauses of organize_files (lines 99-101), generate_report
\* (lines 125-127) and main (145-147): the error is logged and re-raised,
\* main prints it and the run is over.
organize_files_except(kind) == [pc |-> "raised", err |-> kind]

\* The records the except clauses log for an error of the given kind, from the
\* innermost clause (lines 51, 100, 126) to main (line 147).
error_records(kind) ==
  (IF kind = "create"
     THEN <<LogLine("Error creating directories", <<>>, <<>>, 0, 0)>>
     ELSE <<>>)
  \o (IF kind = "report"
        THEN <<LogLine("Error generating report", <<>>, <<>>, 0, 0)>>
        ELSE <<LogLine("Error organizing files", <<>>, <<>>, 0, 0)>>)
  \o <<LogLine("Program terminated with error", <<>>, <<>>, 0, 0)>>

\* generate_report raises when write_text does: the report path is a
\* directory, or the operating system refuses the write.
generate_report_raises(f, org, refused) ==
  refused \/ IsDir(f, Join(org, N_report))

\* Lines 110-118: one line per category and one for misc, each with the number
\* of entries glob('*') yields in that folder.  unreadable holds the numbers
\* of the folders the operating system refuses to list: glob swallows the
\* PermissionError and yields nothing.
report_lines(f, org, unreadable) ==
  [i \in 1..Len(LayoutNames) |->
     [label |-> IF i <= Len(categories)
                  THEN capitalize(LayoutNames[i])
                  ELSE <<"M", "i", "s", "c", "e", "l", "l", "a", "n", "e", "o", "u", "s">>,
      n |-> IF i \in unreadable
              THEN 0
              ELSE Cardinality(Children(f, Join(org, LayoutNames[i])))]]

\* FileOrganizer.__init__: logging.basicConfig opens file_organizer.log in
\* the working directory in append mode, creating it when absent.
organizer_init(f, wd) ==
  IF Join(wd, N_log) \in DOMAIN f THEN f ELSE WriteNode(f, Join(wd, N_log), File("log"))

----------------------------------------------------------------------------
\* State.

VARIABLES
  fs,               \* the filesystem
  cwd,              \* the working directory of the process
  source_dir,       \* self.source_dir, as typed by the user
  log_at,           \* where the file the log handler opened is now
  now,              \* the wall clock, in seconds
  pc,               \* where main() is: main, loop, returned, done, raised
  todo,             \* entries of the iterdir() listing not yet visited
  total_files,      \* local of organize_files
  organized_files,  \* local of organize_files
  ret,              \* what organize_files returned, <<>> before it returns
  err,              \* the exception that ended the run: none, create, list, move, report
  report,           \* the lines generate_report wrote in this run
  run,              \* number of the current run of the tool
  fs0,              \* history: the filesystem when this run started
  listed,           \* history: the iterdir() listing of this run
  counted,          \* history: entries counted in total_files in this run
  moved,            \* history: the moves of this run
  prev_done,        \* history: a run before this one returned successfully
  create_denied,    \* history: the operating system refused a call of create_directories
  calls,            \* direct calls of create_directories made (layout check)
  ext_in,           \* classification check: first extension
  ext_alt,          \* classification check: second extension
  cat_out,          \* classification check: category of ext_in
  cat_alt           \* classification check: category of ext_alt

vars ==
  <<fs, cwd, source_dir, log_at, now, pc, todo, total_files, organized_files,
    ret, err, report, run, fs0, listed, counted, moved, prev_done,
    create_denied, calls, ext_in, ext_alt, cat_out, cat_alt>>

classify_vars == <<ext_in, ext_alt, cat_out, cat_alt>>

organizer_vars ==
  <<fs, cwd, source_dir, log_at, now, pc, todo, total_files, organized_files,
    ret, err, report, run, fs0, listed, counted, moved, prev_done,
    create_denied>>

----------------------------------------------------------------------------
\* Starting states: what is on disk when the tool is launched.

SrvDir == <<Root, N_srv>>

WorkDir == <<Root, N_srv, N_work>>

OrgDir == Join(WorkDir, N_organized_files)

\* A name that collides with the disambiguated name of a.txt at clock 0.
N_a_stamped == stem(N_a_txt) \o <<"_">> \o strftime(0) \o suffix(N_a_txt)

\* The ways the same source directory can be given to the tool, and the
\* working directories it can be started in: the source directory, its
\* parent, a sub-directory of it.
Launches ==
  {[cwd |-> WorkDir, source_dir |-> <<>>],
   [cwd |-> SrvDir,  source_dir |-> <<N_work>>],
   [cwd |-> SrvDir,  source_dir |-> WorkDir],
   [cwd |-> WorkDir, source_dir |-> WorkDir],
   [cwd |-> Join(WorkDir, N_sub), source_dir |-> WorkDir]}

\* A source directory that does not exist.
MissingLaunch == [cwd |-> SrvDir, source_dir |-> <<Root, N_srv, N_nowhere>>]

BaseEntries ==
  {Entry(<<Root>>, Dir), Entry(SrvDir, Dir), Entry(WorkDir, Dir)}

SourceFiles ==
  {Entry(Join(WorkDir, N_a_txt), File("new")),
   Entry(Join(WorkDir, N_a_stamped), File("stamped")),
   Entry(Join(WorkDir, N_dot_py), File("dot")),
   Entry(Join(WorkDir, N_log), File("userlog"))}

\* A sub-directory of the source directory, holding a file.
SubDirEntries ==
  {Entry(Join(WorkDir, N_sub), Dir),
   Entry(Join(Join(WorkDir, N_sub), N_x_txt), File("x"))}

\* What may already be at organized_files: nothing; a regular file; a partial
\* layout; a complete layout holding files and a directory; a layout whose
\* documents is a regular file and whose report path is a directory.
OrganizedBefore ==
  {{},
   {Entry(OrgDir, File("notadir"))},
   {Entry(OrgDir, Dir),
    Entry(Join(OrgDir, N_documents), Dir),
    Entry(Join(Join(OrgDir, N_documents), N_a_txt), File("old"))},
   {Entry(OrgDir, Dir)}
     \cup {Entry(Join(OrgDir, LayoutNames[i]), Dir) : i \in 1..Len(LayoutNames)}
     \cup {Entry(Join(Join(OrgDir, N_documents), N_a_txt), File("old")),
           Entry(Join(Join(OrgDir, N_documents), N_a_stamped), File("oldstamped")),
           Entry(Join(Join(OrgDir, N_images), N_old), Dir)},
   {Entry(OrgDir, Dir),
    Entry(Join(OrgDir, N_documents), File("notadir")),
    Entry(Join(OrgDir, N_report), Dir)}}

NoExt == <<>>

\* FileOrganizer(source_dir) has been constructed in some working directory,
\* on some disk.
Launched ==
  /\ \/ \E launch \in Launches, files \in SUBSET SourceFiles,
           org \in OrganizedBefore :
          /\ Cardinality(files) <= MaxFiles
          /\ cwd = launch.cwd
          /\ source_dir = launch.source_dir
          /\ fs = organizer_init(
                    FsOf(BaseEntries \cup files \cup SubDirEntries \cup org),
                    launch.cwd)
     \/ /\ cwd = MissingLaunch.cwd
        /\ source_dir = MissingLaunch.source_dir
        /\ fs = organizer_init(FsOf(BaseEntries), MissingLaunch.cwd)
  /\ log_at = Join(cwd, N_log)
  /\ fs0 = fs

Init ==
  /\ Launched
  /\ now = 0
  /\ pc = "main"
  /\ todo = {}
  /\ total_files = 0
  /\ organized_files = 0
  /\ ret = <<>>
  /\ err = "none"
  /\ report = <<>>
  /\ run = 1
  /\ listed = {}
  /\ counted = {}
  /\ moved = {}
  /\ prev_done = FALSE
  /\ create_denied = FALSE
  /\ calls = 0
  /\ ext_in = NoExt
  /\ ext_alt = NoExt
  /\ cat_out = <<>>
  /\ cat_alt = <<>>

----------------------------------------------------------------------------
\* main() and the methods it calls.

\* Path.iterdir(): the entries directly inside p.
iterdir(f, wd, p) == {Join(p, NameOf(q)) : q \in Children(f, Resolve(wd, p))}

\* organize_files, lines 64-71: the counters start at 0, the layout is
\* created and the source directory is listed.  The operating system refuses
\* the call number refuse_at of create_directories (none when 0; a call that
\* is never made cannot be refused) and, when refuse_list, the listing of the source directory.
OrganizeStart(refuse_at, refuse_list) ==
  /\ pc = "main"
  /\ total_files' = 0
  /\ organized_files' = 0
  /\ LET org == Resolve(cwd, organized_dir(source_dir))
         made == create_directories(fs, org, log_at, refuse_at)
     IN /\ refuse_at = 0 \/ made.refused
        /\ create_denied' = made.refused
        /\ IF ~made.ok
             THEN /\ ~refuse_list
                  /\ pc' = organize_files_except("create").pc
                  /\ err' = organize_files_except("create").err
                  /\ fs' = logging_write(made.fs, log_at, error_records("create"))
                  /\ UNCHANGED <<todo, listed>>
             ELSE IF refuse_list
               THEN /\ pc' = organize_files_except("list").pc
                    /\ err' = organize_files_except("list").err
                    /\ fs' = logging_write(made.fs, log_at, error_records("list"))
                    /\ UNCHANGED <<todo, listed>>
               ELSE /\ fs' = made.fs
                    /\ todo' = iterdir(fs', cwd, source_dir)
                    /\ listed' = todo'
                    /\ pc' = "loop"
                    /\ UNCHANGED err
  /\ UNCHANGED <<cwd, source_dir, log_at, now, ret, report, run, fs0, counted,
                 moved, prev_done>>
  /\ UNCHANGED <<classify_vars, calls>>

\* What the operating system may refuse during a move.
Refusals == {"none", "refused", "copied", "by_copy"}

\* One iteration of the loop of lines 71-93, for the entry file_path; refusal
\* says what the operating system refuses during the move.
ProcessEntry(file_path, refusal) ==
  /\ pc = "loop"
  /\ file_path \in todo
  /\ todo' = todo \ {file_path}
  /\ IF ~qualifies(fs, cwd, file_path)
       THEN /\ refusal = "none"
            /\ UNCHANGED <<fs, log_at, pc, err, total_files, organized_files,
                           counted, moved>>
       ELSE LET src == Resolve(cwd, file_path)
                category == get_category(suffix(NameOf(file_path)))
                first == Resolve(cwd, Join(Join(organized_dir(source_dir), category),
                                           NameOf(file_path)))
                dst == Resolve(cwd, dest_path(fs, cwd, source_dir, file_path, now))
                mv == shutil_move(fs, src, dst, refusal)
            IN /\ total_files' = total_files + 1
               /\ counted' = counted \cup {file_path}
               /\ IF ~mv.ok
                    THEN /\ pc' = organize_files_except("move").pc
                         /\ err' = organize_files_except("move").err
                         /\ fs' = logging_write(mv.fs, log_at, error_records("move"))
                         /\ UNCHANGED <<log_at, organized_files, moved>>
                    ELSE /\ log_at' = IF mv.copied
                                          THEN FollowCopy(log_at, src)
                                          ELSE Follow(log_at, src, mv.dest)
                         /\ fs' = logging_write(mv.fs, log_at',
                                    <<LogLine("Moved '%s' to %s folder",
                                              NameOf(file_path), category, 0, 0)>>)
                         /\ organized_files' = organized_files + 1
                         /\ moved' = moved \cup
                              {[src |-> src, first |-> first, dest |-> mv.dest,
                                collided |-> first \in DOMAIN fs,
                                node |-> fs[src]]}
                         /\ UNCHANGED <<pc, err>>
  /\ UNCHANGED <<cwd, source_dir, now, ret, report, run, fs0, listed, prev_done,
                 create_denied>>
  /\ UNCHANGED <<classify_vars, calls>>

\* Lines 95-97: the loop is over, the summary is logged, the counts returned.
OrganizeReturn ==
  /\ pc = "loop"
  /\ todo = {}
  /\ fs' = logging_write(fs, log_at,
             <<LogLine("Organization complete. Processed %d of %d files",
                       <<>>, <<>>, organized_files, total_files)>>)
  /\ ret' = <<organized_files, total_files>>
  /\ pc' = "returned"
  /\ UNCHANGED <<cwd, source_dir, log_at, now, todo, total_files,
                 organized_files, err, report, run, fs0, listed, counted, moved,
                 prev_done, create_denied>>
  /\ UNCHANGED <<classify_vars, calls>>

\* generate_report, lines 103-127, then the prints of main; refuse_write says
\* whether the operating system refuses to write the report, unreadable
\* which folders it refuses to list (an empty folder yields nothing anyway).
GenerateReport(refuse_write, unreadable) ==
  /\ pc = "returned"
  /\ \A i \in unreadable :
       Children(fs, Join(Resolve(cwd, organized_dir(source_dir)), LayoutNames[i])) # {}
  /\ LET org == Resolve(cwd, organized_dir(source_dir))
         lines == report_lines(fs, org, unreadable)
     IN IF generate_report_raises(fs, org, refuse_write)
          THEN /\ pc' = organize_files_except("report").pc
               /\ err' = organize_files_except("report").err
               /\ fs' = logging_write(fs, log_at, error_records("report"))
               /\ UNCHANGED <<report, ret>>
          ELSE /\ report' = lines
               /\ fs' = logging_write(
                          WriteNode(fs, Join(org, N_report),
                                    [kind |-> "file", text |-> "report",
                                     lines |-> lines]),
                          log_at,
                          <<LogLine("Report generated successfully",
                                    <<>>, <<>>, 0, 0)>>)
               /\ pc' = "done"
               /\ UNCHANGED <<err, ret>>
  /\ UNCHANGED <<cwd, source_dir, log_at, now, todo, total_files,
                 organized_files, run, fs0, listed, counted, moved, prev_done,
                 create_denied>>
  /\ UNCHANGED <<classify_vars, calls>>

\* Time passes while organize_files scans the source directory, where the
\* clock is read (line 87).
Tick ==
  /\ pc = "loop"
  /\ now < MaxClock
  /\ now' = now + 1
  /\ UNCHANGED <<fs, cwd, source_dir, log_at, pc, todo, total_files,
                 organized_files, ret, err, report, run, fs0, listed, counted,
                 moved, prev_done, create_denied>>
  /\ UNCHANGED <<classify_vars, calls>>

\* The tool is started again, in the same working directory and on the same
\* source directory, after a run that completed: __init__, then main.
Rerun ==
  /\ pc = "done"
  /\ run < MaxRuns
  /\ run' = run + 1
  /\ fs' = organizer_init(fs, cwd)
  /\ log_at' = Join(cwd, N_log)
  /\ fs0' = fs'
  /\ pc' = "main"
  /\ todo' = {}
  /\ total_files' = 0
  /\ organized_files' = 0
  /\ ret' = <<>>
  /\ err' = "none"
  /\ report' = <<>>
  /\ listed' = {}
  /\ counted' = {}
  /\ moved' = {}
  /\ prev_done' = TRUE
  /\ create_denied' = FALSE
  /\ UNCHANGED <<cwd, source_dir, now>>
  /\ UNCHANGED <<classify_vars, calls>>

Next ==
  \/ \E refuse_at \in 0..(2 * (Len(LayoutNames) + 1)), refuse_list \in BOOLEAN :
       OrganizeStart(refuse_at, refuse_list)
  \/ \E file_path \in todo, refusal \in Refusals : ProcessEntry(file_path, refusal)
  \/ OrganizeReturn
  \/ \E refuse_write \in BOOLEAN, unreadable \in SUBSET (1..Len(LayoutNames)) :
       GenerateReport(refuse_write, unreadable)
  \/ Tick
  \/ Rerun

Spec == Init /\ [][Next]_vars

----------------------------------------------------------------------------
\* Classification on its own: get_category applied to two extensions that
\* differ at most in letter case.

\* The ASCII lower-case letter a character is a form of.
BaseLetter(c) ==
  IF c = KelvinSign THEN "k"
  ELSE IF c = LongS THEN "s"
  ELSE IF c = CapitalIDot THEN "i"
  ELSE IF c \in DOMAIN UpperToLower THEN UpperToLower[c]
  ELSE c

\* The characters that are forms of the same letter as c.
Forms(c) ==
  {BaseLetter(c), UpperChar(BaseLetter(c))}
    \cup {x \in {KelvinSign, LongS, CapitalIDot} : BaseLetter(x) = BaseLetter(c)}

RECURSIVE CaseVariants(_)
CaseVariants(e) ==
  IF e = <<>>
    THEN {<<>>}
    ELSE {<<c>> \o r : c \in Forms(Head(e)), r \in CaseVariants(Tail(e))}

TableExtensions == UNION {row.extensions : row \in DocumentedTable}

OtherAlphabet == {".", "p", "y", "P", "7", "x"}

OtherStrings ==
  UNION {[1..n -> OtherAlphabet] : n \in 0..MaxOtherLen}

ExtInputs ==
  UNION {CaseVariants(e) : e \in TableExtensions} \cup OtherStrings

InitClassify ==
  /\ ext_in \in ExtInputs
  /\ ext_alt \in CaseVariants(ext_in)
  /\ cat_out = <<>>
  /\ cat_alt = <<>>
  /\ cwd = SrvDir
  /\ source_dir = WorkDir
  /\ fs = FsOf(BaseEntries)
  /\ log_at = <<>>
  /\ fs0 = fs
  /\ now = 0
  /\ pc = "classify"
  /\ todo = {}
  /\ total_files = 0
  /\ organized_files = 0
  /\ ret = <<>>
  /\ err = "none"
  /\ report = <<>>
  /\ run = 1
  /\ listed = {}
  /\ counted = {}
  /\ moved = {}
  /\ prev_done = FALSE
  /\ create_denied = FALSE
  /\ calls = 0

Classify ==
  /\ pc = "classify"
  /\ cat_out = <<>>
  /\ cat_out' = get_category(ext_in)
  /\ cat_alt' = get_category(ext_alt)
  /\ UNCHANGED <<ext_in, ext_alt>>
  /\ UNCHANGED <<organizer_vars, calls>>

NextClassify == Classify

SpecClassify == InitClassify /\ [][NextClassify]_vars

----------------------------------------------------------------------------
\* create_directories on its own: the method is called, and called again, on
\* an organizer that has been constructed.

InitLayout ==
  /\ Launched
  /\ now = 0
  /\ pc = "layout"
  /\ todo = {}
  /\ total_files = 0
  /\ organized_files = 0
  /\ ret = <<>>
  /\ err = "none"
  /\ report = <<>>
  /\ run = 1
  /\ listed = {}
  /\ counted = {}
  /\ moved = {}
  /\ prev_done = FALSE
  /\ create_denied = FALSE
  /\ calls = 0
  /\ ext_in = NoExt
  /\ ext_alt = NoExt
  /\ cat_out = <<>>
  /\ cat_alt = <<>>

\* A call of create_directories, lines 33-52: when an exists() or a mkdir
\* raises, the except clause logs the error and re-raises to the caller.  err
\* tells how this call ended; the operating system refuses the call number
\* refuse_at of the method (none when 0).
CreateDirectories(refuse_at) ==
  /\ pc = "layout"
  /\ calls < MaxCalls
  /\ calls' = calls + 1
  /\ LET made == create_directories(fs, Resolve(cwd, organized_dir(source_dir)),
                                    log_at, refuse_at)
     IN /\ refuse_at = 0 \/ made.refused
        /\ create_denied' = made.refused
        /\ err' = IF made.ok THEN "none" ELSE "create"
        /\ fs' = IF made.ok
                   THEN made.fs
                   ELSE logging_write(made.fs, log_at,
                          <<LogLine("Error creating directories", <<>>, <<>>, 0, 0)>>)
  /\ UNCHANGED <<cwd, source_dir, log_at, now, pc, todo, total_files,
                 organized_files, ret, report, run, fs0, listed, counted, moved,
                 prev_done>>
  /\ UNCHANGED classify_vars

NextLayout ==
  \E refuse_at \in 0..(2 * (Len(LayoutNames) + 1)) : CreateDirectories(refuse_at)

SpecLayout == InitLayout /\ [][NextLayout]_vars

----------------------------------------------------------------------------
\* Vocabulary of the properties.

Src == Resolve(cwd, source_dir)

Org == Resolve(cwd, organized_dir(source_dir))

Layout == {Org} \cup {Join(Org, LayoutNames[i]) : i \in 1..Len(LayoutNames)}

CategoryFolders == {Join(Org, LayoutNames[i]) : i \in 1..Len(LayoutNames)}

\* The regular files directly inside a category folder.
CategoryFiles(f) ==
  {p \in DOMAIN f : f[p].kind = "file" /\ \E d \in CategoryFolders : p \in Children(f, d)}

Below(f, d) == {q \in DOMAIN f : IsPrefix(d, q) /\ q # d}

DirsOf(f) == {p \in DOMAIN f : f[p].kind = "dir"}

\* Node n is node n0 with its content kept: the same file with the same
\* text, to which at most log records have been appended.
Keeps(n, n0) ==
  /\ n.kind = n0.kind
  /\ n.text = n0.text
  /\ Len(n0.lines) <= Len(n.lines)
  /\ SubSeq(n.lines, 1, Len(n0.lines)) = n0.lines

\* Two strings that are equal up to the case of their ASCII letters.
CasePair(x, y) ==
  \E u \in DOMAIN UpperToLower : {x, y} = {u, UpperToLower[u]}

EqIgnoreCase(a, b) ==
  /\ Len(a) = Len(b)
  /\ \A i \in 1..Len(a) : a[i] = b[i] \/ CasePair(a[i], b[i])

\* The extension as the documentation words it: from the last dot onward,
\* empty when the name has no dot.
ClaimExtension(name) ==
  IF RFindDot(name) = 0 THEN <<>> ELSE SubSeq(name, RFindDot(name), Len(name))

----------------------------------------------------------------------------
\* C1 (no-clobber): no step replaces or removes a regular file that is in a
\* category folder, and a file whose first destination exists lands at the
\* distinct path <stem>_<timestamp><ext> while the file at the first
\* destination keeps its content.
C1_NoClobber ==
  [][/\ \A p \in CategoryFiles(fs) : p \in DOMAIN fs' /\ Keeps(fs'[p], fs[p])
     /\ \A m \in moved' \ moved :
          m.collided =>
            /\ m.dest # m.first
            /\ NameOf(m.dest) =
                 stem(NameOf(m.first)) \o <<"_">> \o strftime(now)
                   \o suffix(NameOf(m.first))
            /\ Keeps(fs'[m.first], fs[m.first])]_vars

\* C2 (conservation): organized_files <= total_files in every state, and once
\* organize_files has returned the two are equal and the content of every
\* file the scan counted is found somewhere under organized_files/.  (The
\* files the scan counted are among the regular files of the source
\* directory, so the claim implies this statement.)
C2_Conservation ==
  /\ organized_files <= total_files
  /\ pc \in {"returned", "done"} =>
       /\ organized_files = total_files
       /\ \A p \in counted :
            \E q \in Below(fs, Org) : Keeps(fs[q], fs0[Resolve(cwd, p)])

\* C3 (own log): a regular file named file_organizer.log in the source
\* directory is never counted and never moved, however the source directory
\* was given.
C3_LogFileExcluded ==
  /\ \A p \in counted : NameOf(p) # N_log
  /\ Join(Src, N_log) \in DOMAIN fs0 =>
       /\ Join(Src, N_log) \in DOMAIN fs
       /\ Keeps(fs[Join(Src, N_log)], fs0[Join(Src, N_log)])

\* C5 (report accuracy): after generate_report, the number on each category's
\* line is the number of regular files in that category's folder.
C5_ReportAccuracy ==
  pc = "done" =>
    \A i \in 1..Len(LayoutNames) :
      report[i].n =
        Cardinality({q \in Children(fs, Join(Org, LayoutNames[i])) :
                       fs[q].kind = "file"})

\* C9 (placement): every file moved in this run is in exactly one place,
\* inside the folder of the category of its extension (the name from the last
\* dot onward), under its own name when nothing was at that path, and it is
\* no longer in the source directory.
C9_Placement ==
  \A m \in moved :
    LET places == {q \in DOMAIN fs : Keeps(fs[q], m.node)}
        folder == Join(Org, get_category(ClaimExtension(NameOf(m.src))))
    IN /\ Cardinality(places) = 1
       /\ \A q \in places :
            /\ q \in Children(fs, folder)
            /\ ~m.collided => NameOf(q) = NameOf(m.src)
       /\ m.src \notin DOMAIN fs

\* C10 (re-run): a run that follows a completed run counts no file, returns
\* (0, 0), and leaves every path under organized_files/ with the content it
\* had when the run started.
C10_RerunNoOp ==
  prev_done =>
    /\ counted = {}
    /\ pc \in {"returned", "done"} =>
         /\ ret = <<0, 0>>
         /\ \A q \in Below(fs0, Org) : q \in DOMAIN fs /\ fs[q] = fs0[q]
         /\ Below(fs, Org) = Below(fs0, Org)

----------------------------------------------------------------------------
\* C4 as claimed (classification): get_category returns the documented
\* category for every documented extension in any letter case, 'misc' for
\* every other string (the empty string included), and the same category for
\* two extensions that differ only in case.
C4_Classification ==
  cat_out # <<>> =>
    /\ \A row \in DocumentedTable :
         (\E e \in row.extensions : EqIgnoreCase(ext_in, e)) =>
           cat_out = row.category
    /\ (\A e \in TableExtensions : ~EqIgnoreCase(ext_in, e)) => cat_out = N_misc
    /\ EqIgnoreCase(ext_in, ext_alt) => cat_alt = cat_out

\* C4 as amended: get_category returns the documented category for every
\* documented extension in any letter case and, more generally, for every
\* string whose str.lower() is a documented extension; 'misc' for every string
\* whose str.lower() is not one (the empty string included); and the same
\* category for two strings that differ only in the case of ASCII letters or
\* have the same str.lower().
C4_ClassificationByLower ==
  cat_out # <<>> =>
    /\ \A row \in DocumentedTable :
         \/ \E e \in row.extensions : EqIgnoreCase(ext_in, e)
         \/ lower(ext_in) \in row.extensions
         => cat_out = row.category
    /\ lower(ext_in) \notin TableExtensions => cat_out = N_misc
    /\ (EqIgnoreCase(ext_in, ext_alt) \/ lower(ext_in) = lower(ext_alt)) =>
         cat_alt = cat_out

\* '.mKv' written with U+212A KELVIN SIGN has been classified as videos, and
\* '.MKV' with it.
C4_Witness ==
  /\ ext_in = <<".", "m", KelvinSign, "v">>
  /\ ext_alt = <<".", "M", "K", "V">>
  /\ cat_out = N_videos
  /\ cat_alt = N_videos

\* C6 (abort on a failed move): once a move has failed the run is over:
\* organize_files has raised and returned nothing, no report was written,
\* the entries not yet visited are where they were, the files moved before
\* are at their destinations with their content and not back in the source
\* directory, and no further step changes anything.
C6_AbortOnMoveError ==
  /\ [](err = "move" =>
          /\ pc = "raised"
          /\ ret = <<>>
          /\ report = <<>>
          /\ Join(Org, N_report) \in DOMAIN fs =>
               /\ Join(Org, N_report) \in DOMAIN fs0
               /\ fs[Join(Org, N_report)] = fs0[Join(Org, N_report)]
          /\ \A p \in todo :
               /\ Resolve(cwd, p) \in DOMAIN fs
               /\ Resolve(cwd, p) \in DOMAIN fs0 =>
                    Keeps(fs[Resolve(cwd, p)], fs0[Resolve(cwd, p)])
          /\ organized_files = Cardinality(moved)
          /\ \A m \in moved :
               /\ m.src \notin DOMAIN fs
               /\ m.dest \in DOMAIN fs
               /\ Keeps(fs[m.dest], m.node))
  /\ [][err = "move" => fs' = fs /\ pc' = "raised" /\ moved' = moved]_vars

\* The source directory is a directory and each path of the layout is absent
\* or a directory.
LayoutAbsentOrDir(f) ==
  /\ IsDir(f, Src)
  /\ \A p \in Layout : p \in DOMAIN f => f[p].kind = "dir"

\* Some or all of the layout exists, as directories.
SomeLayoutExists(f) == LayoutAbsentOrDir(f) /\ Org \in DOMAIN f

\* What create_directories has done when it returned: the directories are
\* those that existed plus the layout, nothing else was added, and everything
\* that existed has kept its content.
LayoutCompleted(f, f0) ==
  /\ DirsOf(f) = DirsOf(f0) \cup Layout
  /\ DOMAIN f = DOMAIN f0 \cup Layout
  /\ \A p \in DOMAIN f0 : Keeps(f[p], f0[p])

\* What every call of create_directories leaves, raised or not: directories
\* of the layout at most have been added, and everything that existed has
\* kept its content.
NothingLost(f, f0) ==
  /\ DirsOf(f0) \subseteq DirsOf(f)
  /\ DirsOf(f) \subseteq DirsOf(f0) \cup Layout
  /\ DOMAIN f0 \subseteq DOMAIN f
  /\ DOMAIN f \subseteq DOMAIN f0 \cup Layout
  /\ \A p \in DOMAIN f0 : Keeps(f[p], f0[p])

\* C7 as claimed (idempotent layout): on a root where some or all of the
\* layout exists, no call of create_directories raises; after a call the
\* directories are those that existed plus the layout and everything that
\* existed has kept its content; a second call adds or removes nothing.
C7_IdempotentLayout ==
  /\ []((SomeLayoutExists(fs0) /\ calls > 0) =>
          /\ err # "create"
          /\ LayoutCompleted(fs, fs0))
  /\ [][(SomeLayoutExists(fs0) /\ calls > 0 /\ err = "none") =>
          /\ err' # "create"
          /\ DOMAIN fs' = DOMAIN fs
          /\ \A p \in DOMAIN fs : Keeps(fs'[p], fs[p])]_vars

\* C7 as amended: on a root where the source directory exists and each path
\* of the layout is absent or a directory, a call of create_directories
\* raises only when the operating system refuses one of its calls (an
\* exists() or a mkdir); raised or not, it has added directories of the
\* layout only and everything that existed has kept its content; when it
\* has returned, the directories are those that existed plus the layout; and
\* a call that follows one that returned adds or removes nothing.
C7_IdempotentLayoutUnlessRefused ==
  /\ []((LayoutAbsentOrDir(fs0) /\ calls > 0) =>
          /\ err = "create" => create_denied
          /\ NothingLost(fs, fs0)
          /\ err = "none" => LayoutCompleted(fs, fs0))
  /\ [][(LayoutAbsentOrDir(fs0) /\ calls > 0 /\ err = "none") =>
          /\ err' = "create" => create_denied'
          /\ DOMAIN fs' = DOMAIN fs
          /\ \A p \in DOMAIN fs : Keeps(fs'[p], fs[p])]_vars

\* create_directories has been called twice, and has returned, on a layout
\* of which only organized_files/ and documents/ existed, documents/ holding
\* a file.
C7_Witness ==
  /\ calls = 2
  /\ err = "none"
  /\ Org \in DOMAIN fs0
  /\ Join(Org, N_misc) \notin DOMAIN fs0
  /\ IsDir(fs0, Join(Org, N_documents))
  /\ Join(Join(Org, N_documents), N_a_txt) \in DOMAIN fs0
  /\ Join(Org, N_misc) \in DOMAIN fs

\* C8 (sub-directories): every directory that was directly inside the source
\* directory when the run started, organized_files included, is still there,
\* was not counted, nothing below it was moved away and everything that was
\* below it is there with its content; below every such directory other than
\* organized_files, into which the files are moved, nothing was added; and
\* total_files counts regular files only.  (The claim says more of
\* organized_files, so it implies this statement.)
C8_SubdirectoriesUntouched ==
  /\ \A d \in Children(fs0, Src) :
       fs0[d].kind = "dir" =>
         /\ d \in DOMAIN fs
         /\ fs[d].kind = "dir"
         /\ \A p \in counted : Resolve(cwd, p) # d
         /\ \A m \in moved : ~IsPrefix(d, m.src)
         /\ \A q \in Below(fs0, d) : q \in DOMAIN fs /\ fs[q] = fs0[q]
         /\ d # Org => Below(fs, d) = Below(fs0, d)
  /\ total_files = Cardinality(counted)
  /\ \A p \in counted :
       /\ Resolve(cwd, p) \in DOMAIN fs0
       /\ fs0[Resolve(cwd, p)].kind = "file"

====
